---- MODULE Spec2Model ----
(***************************************************************************)
(* Back Order Management dashboard (src/BO_app.py).                        *)
(*                                                                         *)
(* The script is a Streamlit page: every operator interaction (upload,     *)
(* widget change, button click) re-runs the whole script top to bottom     *)
(* against the session state (st.session_state.df and                      *)
(* st.session_state.order_data_dict).  One action of this model is one     *)
(* interaction together with the complete script run it triggers.          *)
(*                                                                         *)
(* Text is modelled as sequences of one-character strings so that strip,   *)
(* isdigit, str() and the f-string that builds order_key are computed.     *)
(* Numbers are integers (whole dollars, whole units).                      *)
(***************************************************************************)
EXTENDS Integers, Sequences, FiniteSets, TLC

VARIABLES
    df,                  \* st.session_state.df: NoFile or the uploaded table
    order_data_dict,     \* st.session_state.order_data_dict: key -> record
    selected_mfg,        \* multiselect "Manufacturing Lead"
    min_value,           \* number_input "Min Item Dollar Value"
    max_value,           \* number_input "Max Item Dollar Value"
    stock_filter,        \* selectbox "Stock Status"
    customer_min_value,  \* number_input "Customer Min. Total Outstanding"
    customer_max_value,  \* number_input "Customer Max. Total Outstanding"
    now,                 \* datetime.now(), as a counter of recorded saves
    saves,               \* history: the records written by Save, in order
    view                 \* what the last script run computed and rendered

vars == <<df, order_data_dict, selected_mfg, min_value, max_value, stock_filter,
          customer_min_value, customer_max_value, now, saves, view>>

----------------------------------------------------------------------------
(* Bounds of the model.                                                    *)

\* rows per uploaded table, ingestion specification
MaxRows == 2

\* rows per uploaded table, filter specification
MaxFilterRows == 2

\* rows per uploaded table, session specification
MaxSessionRows == 2

\* Save clicks per session
MaxSaves == 2

\* rows of a file in an annotation session
MaxAnnotateRows == 2

----------------------------------------------------------------------------
(* Text.                                                                   *)

Digits == <<"0", "1", "2", "3", "4", "5", "6", "7", "8", "9">>

DigitChars == {Digits[i] : i \in 1..Len(Digits)}

DigitVal(c) == (CHOOSE i \in 1..Len(Digits) : Digits[i] = c) - 1

RECURSIVE lstrip(_)
lstrip(s) == IF s # <<>> /\ Head(s) = " " THEN lstrip(Tail(s)) ELSE s

RECURSIVE rstrip(_)
rstrip(s) ==
    IF s # <<>> /\ s[Len(s)] = " " THEN rstrip(SubSeq(s, 1, Len(s) - 1)) ELSE s

\* str.strip()
strip(s) == rstrip(lstrip(s))

\* str.isdigit(): non-empty and every character a digit
isdigit(s) == s # <<>> /\ \A i \in 1..Len(s) : s[i] \in DigitChars

RECURSIVE NatToStr(_)
NatToStr(n) ==
    IF n < 10 THEN <<Digits[n + 1]>>
    ELSE NatToStr(n \div 10) \o <<Digits[(n % 10) + 1]>>

\* str(n) of an integer
IntToStr(n) == IF n < 0 THEN <<"-">> \o NatToStr(0 - n) ELSE NatToStr(n)

RECURSIVE StrToNat(_)
StrToNat(s) ==
    IF s = <<>> THEN 0
    ELSE 10 * StrToNat(SubSeq(s, 1, Len(s) - 1)) + DigitVal(s[Len(s)])

\* the text forms of a whole number that to_numeric parses
IsNumStr(s) ==
    LET t == strip(s)
    IN  \/ isdigit(t)
        \/ t # <<>> /\ Head(t) = "-" /\ isdigit(Tail(t))

StrToInt(s) ==
    LET t == strip(s)
    IN  IF Head(t) = "-" THEN 0 - StrToNat(Tail(t)) ELSE StrToNat(t)

----------------------------------------------------------------------------
(* Cells of the uploaded table: text, a number, or a missing value (NaN).  *)

NaN == [t |-> "nan", s |-> <<>>, n |-> 0]

Str(s) == [t |-> "str", s |-> s, n |-> 0]

Num(n) == [t |-> "num", s |-> <<>>, n |-> n]

\* pd.isna
isna(c) == c.t = "nan"

\* pd.to_numeric(column, errors='coerce'), cell by cell
to_numeric(c) ==
    IF c.t = "num" THEN c
    ELSE IF c.t = "str" /\ IsNumStr(c.s) THEN Num(StrToInt(c.s))
    ELSE NaN

\* column.astype(str), cell by cell: a missing value becomes the text nan
astype_str(c) ==
    IF c.t = "str" THEN c
    ELSE IF c.t = "num" THEN Str(IntToStr(c.n))
    ELSE Str(<<"n", "a", "n">>)

----------------------------------------------------------------------------
(* Columns.                                                                *)

RequiredCols == {"QOH", "Sell-to Customer Name", "Outstanding Amount",
                 "Mfg. Lead Name"}

OptionalCols == {"Sales Order No", "Item No", "Desc", "Requested Delivery Date"}

NoFile == [loaded |-> FALSE, missing |-> {}, rows |-> <<>>]

Table(missing, rows) == [loaded |-> TRUE, missing |-> missing, rows |-> rows]

HasCol(file, c) == c \notin file.missing

\* a row of the table; so, item, desc, name, mfg, qoh, amt are cells.  oqty is
\* the cell of the column Outstanding Quantity, which no line of the script
\* reads: missing unless a file fills it in
Row(so, item, desc, name, qoh, amt, mfg) ==
    [so |-> so, item |-> item, desc |-> desc, name |-> name,
     qoh |-> qoh, amt |-> amt, mfg |-> mfg, oqty |-> NaN]

----------------------------------------------------------------------------
(* Sequence helpers: boolean-mask selection, sums, unique.                 *)

\* df[mask] is SelectSeq: the rows that satisfy the mask, in their order

RECURSIVE SumAmount(_)
\* rows['Outstanding Amount'].sum(); 0 for no rows
SumAmount(rows) ==
    IF rows = <<>> THEN 0 ELSE Head(rows).amt.n + SumAmount(Tail(rows))

RECURSIVE MaxAmount(_)
\* rows['Outstanding Amount'].max() of a non-empty row-set
MaxAmount(rows) ==
    IF Len(rows) = 1 THEN rows[1].amt.n
    ELSE LET m == MaxAmount(Tail(rows))
         IN  IF rows[1].amt.n >= m THEN rows[1].amt.n ELSE m

RECURSIVE unique(_)
\* Series.unique(): distinct values in order of first appearance
unique(s) ==
    IF s = <<>> THEN <<>>
    ELSE LET r == unique(SubSeq(s, 1, Len(s) - 1))
             x == s[Len(s)]
         IN  IF \E i \in 1..Len(r) : r[i] = x THEN r ELSE Append(r, x)


Range(s) == {s[i] : i \in 1..Len(s)}

----------------------------------------------------------------------------
(* load_and_clean_data.                                                    *)

NotEmptyName(r) == r.name.s # <<>>

NotLowerNan(r) == r.name.s # <<"n", "a", "n">>

NotMixedNan(r) == r.name.s # <<"N", "a", "N">>

NotDigits(r) == ~isdigit(r.name.s)

\* the customer-name filters of lines 38-41, one after the other
ValidName(r) == NotEmptyName(r) /\ NotLowerNan(r) /\ NotMixedNan(r) /\ NotDigits(r)

\* a dropna that leaves Mfg. Lead Name out of its subset
NoneMissingButMfg(r) == ~isna(r.qoh) /\ ~isna(r.name) /\ ~isna(r.amt)

\* dropna(subset=[QOH, Sell-to Customer Name, Outstanding Amount, Mfg. Lead Name])
NoneMissing(r) == ~isna(r.qoh) /\ ~isna(r.name) /\ ~isna(r.amt) /\ ~isna(r.mfg)

\* lines 33-37: the coercions of one row
Coerce(r) ==
    [r EXCEPT !.qoh = to_numeric(r.qoh),
              !.amt = to_numeric(r.amt),
              !.name = Str(strip(astype_str(r.name).s))]

\* lines 33-37 applied to every row of the table
CoerceAll(rows) == [i \in 1..Len(rows) |-> Coerce(rows[i])]

KeepRow(r) == ValidName(r) /\ NoneMissing(r)

\* a cleaning step that touches only the three columns it converts
load_and_clean_data_lenient(file) ==
    IF \E c \in RequiredCols \ {"Mfg. Lead Name"} : ~HasCol(file, c)
    THEN [err |-> TRUE, rows |-> <<>>]
    ELSE [err |-> FALSE,
          rows |-> SelectSeq(CoerceAll(file.rows), KeepRow)]

\* a KeyError is raised when a required column is absent
load_and_clean_data(file) ==
    IF \E c \in RequiredCols : ~HasCol(file, c)
    THEN [err |-> TRUE, rows |-> <<>>]
    ELSE [err |-> FALSE,
          rows |-> SelectSeq(CoerceAll(file.rows), KeepRow)]

----------------------------------------------------------------------------
(* Classification (lines 157-159) and summary metrics (lines 165-199).     *)

IsBackOrder(r) == r.qoh.n = 0

IsInStock(r) == r.qoh.n > 0

\* df_clean[df_clean['QOH'] == 0]
backorders(rows) == SelectSeq(rows, IsBackOrder)

\* df_clean[df_clean['QOH'] > 0]
instock(rows) == SelectSeq(rows, IsInStock)

\* a ratio of two whole numbers, kept exact
Ratio(num, den) == [num |-> num, den |-> den]

Zero == Ratio(0, 1)

\* len(backorders)/len(df_clean)*100 raises ZeroDivisionError on no rows
SummaryMetrics(rows) ==
    IF Len(rows) = 0
    THEN [err |-> TRUE, bo_items |-> 0, bo_pct |-> Zero, back_order_value |-> 0,
          instock_value |-> 0, total_value |-> 0]
    ELSE [err |-> FALSE,
          bo_items |-> Len(backorders(rows)),
          bo_pct |-> Ratio(Len(backorders(rows)) * 100, Len(rows)),
          back_order_value |-> SumAmount(backorders(rows)),
          instock_value |-> SumAmount(instock(rows)),
          total_value |-> SumAmount(rows)]

----------------------------------------------------------------------------
(* Filter widgets (lines 211-239, 282-298).  A number_input holds what the *)
(* operator typed, or its default while untouched; min_value=0 on every    *)
(* number_input keeps what is typed at or above 0.                         *)

Untouched == [user |-> FALSE, v |-> 0]

Typed(v) == [user |-> TRUE, v |-> v]

DefaultStep == 1000

\* value=int(df_clean['Outstanding Amount'].max()) + 1000
DefaultMaxValue(rows) == MaxAmount(rows) + DefaultStep

Effective(w, default) == IF w.user THEN w.v ELSE default

----------------------------------------------------------------------------
(* Row-level filters (lines 241-255).                                      *)

ByMfg(rows, sel) ==
    IF sel = {} THEN rows
    ELSE SelectSeq(rows, LAMBDA r : r.mfg.s \in sel)

ByAmount(rows, lo, hi) ==
    SelectSeq(rows, LAMBDA r : r.amt.n >= lo /\ r.amt.n <= hi)

ByStock(rows, sf) ==
    IF sf = "Back Order Only" THEN SelectSeq(rows, IsBackOrder)
    ELSE IF sf = "In Stock Only" THEN SelectSeq(rows, IsInStock)
    ELSE rows

\* filtered_df
ApplyFilters(rows, sel, lo, hi, sf) == ByStock(ByAmount(ByMfg(rows, sel), lo, hi), sf)

----------------------------------------------------------------------------
(* Customer list with dollar filter (lines 264-304).                       *)

CustomerRows(rows, cust) == SelectSeq(rows, LAMBDA r : r.name.s = cust)

CustomerNames(rows) == unique([i \in 1..Len(rows) |-> rows[i].name.s])

\* one {'customer', 'total'} entry per customer of the filtered rows
CustomerTotals(rows) ==
    LET names == CustomerNames(rows)
    IN  [i \in 1..Len(names) |->
            [customer |-> names[i],
             total |-> SumAmount(CustomerRows(rows, names[i]))]]

RECURSIVE InsertDesc(_, _)
InsertDesc(x, s) ==
    IF s = <<>> THEN <<x>>
    ELSE IF Head(s).total <= x.total THEN <<x>> \o s
    ELSE <<Head(s)>> \o InsertDesc(x, Tail(s))

RECURSIVE SortedDesc(_)
\* sorted(..., key=total, reverse=True): stable, largest total first
SortedDesc(s) ==
    IF s = <<>> THEN <<>> ELSE InsertDesc(Head(s), SortedDesc(Tail(s)))

customer_summary_list(rows) == SortedDesc(CustomerTotals(rows))

\* customer totals taken over the customers' raw rows
SummaryInputRaw(clean, filtered) == clean

\* the frame the loop of line 265 reads: filtered_df, not df_clean
SummaryInput(clean, filtered) == filtered

RECURSIVE MaxTotal(_)
\* max([c['total'] ...]) if customer_summary_list else 0
MaxTotal(s) ==
    IF s = <<>> THEN 0
    ELSE IF Len(s) = 1 THEN s[1].total
    ELSE LET m == MaxTotal(Tail(s))
         IN  IF s[1].total >= m THEN s[1].total ELSE m

DefaultCustomerMax(summary) == MaxTotal(summary) + DefaultStep

\* customer_min_value <= c['total'] <= customer_max_value
InCustomerRange(c, cmin, cmax) == cmin <= c.total /\ c.total <= cmax

customer_list(summary, cmin, cmax) ==
    LET kept == SelectSeq(summary, LAMBDA c : InCustomerRange(c, cmin, cmax))
    IN  [i \in 1..Len(kept) |-> kept[i].customer]

----------------------------------------------------------------------------
(* Per-customer metrics (lines 318-327, 364, 372; 554-568).                *)

\* a percentage without the guard on the total
PctUnguarded(value, total) == Ratio(value * 100, total)

\* (value/total*100) if total > 0 else 0
Pct(value, total) == IF total > 0 THEN Ratio(value * 100, total) ELSE Zero

MfgLeads(rows) == unique([i \in 1..Len(rows) |-> rows[i].mfg.s])

Rollup(rows, cust) ==
    LET customer_df == CustomerRows(rows, cust)
        total == SumAmount(customer_df)
        bo == backorders(customer_df)
        is == instock(customer_df)
    IN  [customer |-> cust,
         total_customer_value |-> total,
         num_items |-> Len(customer_df),
         back_order_items |-> Len(bo),
         instock_items |-> Len(is),
         back_order_val |-> SumAmount(bo),
         instock_val |-> SumAmount(is),
         mfg_leads |-> MfgLeads(customer_df),
         pct_bo |-> Pct(SumAmount(bo), total),
         pct_is |-> Pct(SumAmount(is), total)]

----------------------------------------------------------------------------
(* Customer sections (lines 312-505): item cards, then one block of input  *)
(* widgets and a Save button per order of all_orders.                      *)

\* f"{value}" of a cell
Fmt(c) == astype_str(c).s

\* order_key = f"{order['Sales Order No']}_{order['Item No']}"
order_key(so, item) == Fmt(so) \o <<"_">> \o Fmt(item)

\* "IN STOCK" if order['QOH'] > 0 else "BACK ORDER"
stock_status(r) == IF r.qoh.n > 0 THEN "IN STOCK" ELSE "BACK ORDER"

SamePair(a, b) == a.so = b.so /\ a.item = b.item

RECURSIVE drop_duplicates(_)
\* drop_duplicates(subset=['Sales Order No', 'Item No']): the first row of each pair
drop_duplicates(rows) ==
    IF rows = <<>> THEN <<>>
    ELSE LET r == drop_duplicates(SubSeq(rows, 1, Len(rows) - 1))
             x == rows[Len(rows)]
         IN  IF \E i \in 1..Len(r) : SamePair(r[i], x) THEN r ELSE Append(r, x)

all_orders(customer_df) == drop_duplicates(customer_df)

Button(cust, order) ==
    [customer |-> cust, order |-> order, key |-> order_key(order.so, order.item)]

RECURSIVE OrderBlocks(_, _, _)
\* the loop of lines 454-505 over the orders still to render; done holds the
\* buttons this customer already has.  order['Desc'][:60] raises on a value
\* that is not text; a second widget with the key of an earlier one raises
\* DuplicateWidgetID.
OrderBlocks(orders, cust, done) ==
    IF orders = <<>> THEN [err |-> FALSE, buttons |-> done]
    ELSE LET b == Button(cust, Head(orders))
         IN  IF Head(orders).desc.t # "str" THEN [err |-> TRUE, buttons |-> done]
             ELSE IF \E i \in 1..Len(done) : done[i].key = b.key
                  THEN [err |-> TRUE, buttons |-> done]
             ELSE OrderBlocks(Tail(orders), cust, Append(done, b))

\* the item cards of lines 385-426 read item['Item No'] and item['Desc'][:80]
\* of every in-stock and every back-order row; line 451 selects the columns
\* Sales Order No, Item No and Desc
CustomerSection(file, rows, cust) ==
    LET customer_df == CustomerRows(rows, cust)
        cards == instock(customer_df) \o backorders(customer_df)
    IN  IF \E c \in {"Sales Order No", "Item No", "Desc"} : ~HasCol(file, c)
        THEN [err |-> TRUE, buttons |-> <<>>]
        ELSE IF \E i \in 1..Len(cards) : cards[i].desc.t # "str"
        THEN [err |-> TRUE, buttons |-> <<>>]
        ELSE OrderBlocks(all_orders(customer_df), cust, <<>>)

RECURSIVE Sections(_, _, _, _)
\* the loop of line 316 over the customers still to render
Sections(file, rows, custs, acc) ==
    IF custs = <<>> THEN acc
    ELSE LET sec == CustomerSection(file, rows, Head(custs))
             nxt == [err |-> sec.err,
                     rollups |-> Append(acc.rollups, Rollup(rows, Head(custs))),
                     buttons |-> acc.buttons \o sec.buttons]
         IN  IF sec.err THEN nxt ELSE Sections(file, rows, Tail(custs), nxt)

----------------------------------------------------------------------------
(* Exports (lines 519-568, 593-669).                                       *)

ExportCols == {"Sales Order No", "Sell-to Customer Name", "Item No", "Desc",
               "Outstanding Amount", "QOH", "Requested Delivery Date",
               "Mfg. Lead Name"}

ExportRow(r) ==
    [Order |-> r.so, Customer |-> r.name.s, Item |-> r.item,
     Description |-> r.desc, Outstanding |-> r.amt.n, QOH |-> r.qoh.n,
     MfgLead |-> r.mfg.s]

\* export_df: the column selection and renaming of filtered_df
export_df(rows) == [i \in 1..Len(rows) |-> ExportRow(rows[i])]

SummaryRow(rows, cust) ==
    LET cust_df == CustomerRows(rows, cust)
        cust_bo == backorders(cust_df)
        cust_is == instock(cust_df)
    IN  [Customer |-> cust,
         TotalOutstanding |-> SumAmount(cust_df),
         TotalItems |-> Len(cust_df),
         BackOrderItems |-> Len(cust_bo),
         BackOrderValue |-> SumAmount(cust_bo),
         InStockItems |-> Len(cust_is),
         InStockValue |-> SumAmount(cust_is),
         MfgLeads |-> MfgLeads(cust_df)]

summary_data(rows, custs) == [i \in 1..Len(custs) |-> SummaryRow(rows, custs[i])]

----------------------------------------------------------------------------
(* One run of the script (lines 147-707) over the session's table and the  *)
(* widget values.  stages is the set of stages that ran to their end; the  *)
(* first exception ends the run in the except branch of line 699.          *)

Idle ==
    [status |-> "idle", stages |-> {},
     df_clean |-> <<>>, backorders |-> <<>>, instock |-> <<>>,
     metrics |-> SummaryMetrics(<<>>),
     lo |-> 0, hi |-> 0, cmin |-> 0, cmax |-> 0,
     filtered_df |-> <<>>, customer_summary_list |-> <<>>,
     customer_list |-> <<>>, rollups |-> <<>>, buttons |-> <<>>,
     export_df |-> <<>>, summary_data |-> <<>>, excel |-> {}]

Failed(v) == [v EXCEPT !.status = "error"]

\* from the filters to the exports: lines 241-581
RunFilters(file, v, sel, wmin, wmax, sf, wcmin, wcmax) ==
    LET lo == Effective(wmin, 0)
        hi == Effective(wmax, DefaultMaxValue(v.df_clean))
        filtered == ApplyFilters(v.df_clean, sel, lo, hi, sf)
        summary == customer_summary_list(SummaryInput(v.df_clean, filtered))
        cmin == Effective(wcmin, 0)
        cmax == Effective(wcmax, DefaultCustomerMax(summary))
        custs == customer_list(summary, cmin, cmax)
        sec == Sections(file, filtered, custs,
                        [err |-> FALSE, rollups |-> <<>>, buttons |-> <<>>])
        v2 == [v EXCEPT !.lo = lo, !.hi = hi, !.cmin = cmin, !.cmax = cmax,
                        !.filtered_df = filtered,
                        !.customer_summary_list = summary,
                        !.customer_list = custs,
                        !.rollups = sec.rollups,
                        !.buttons = sec.buttons,
                        !.stages = v.stages \cup {"filter", "customers"}]
    IN  IF sec.err THEN Failed(v2)
        ELSE IF \E c \in ExportCols : ~HasCol(file, c)
        THEN Failed([v2 EXCEPT !.stages = v2.stages \cup {"sections"}])
        ELSE [v2 EXCEPT !.status = "ok",
                        !.export_df = export_df(filtered),
                        !.summary_data = summary_data(filtered, custs),
                        !.stages = v2.stages \cup {"sections", "export", "summary"}]

RunScript(file, sel, wmin, wmax, sf, wcmin, wcmax) ==
    IF ~file.loaded THEN Idle
    ELSE LET c == load_and_clean_data(file)
         IN  IF c.err THEN Failed(Idle)
             ELSE LET m == SummaryMetrics(c.rows)
                      v1 == [Idle EXCEPT !.df_clean = c.rows,
                                         !.backorders = backorders(c.rows),
                                         !.instock = instock(c.rows),
                                         !.metrics = m,
                                         !.stages = {"clean", "classify"}]
                  IN  IF m.err THEN Failed(v1)
                      ELSE RunFilters(file,
                                      [v1 EXCEPT !.stages = v1.stages \cup {"metrics"}],
                                      sel, wmin, wmax, sf, wcmin, wcmax)

----------------------------------------------------------------------------
(* Session state and the interactions.                                     *)

\* the options of the "Manufacturing Lead" multiselect (line 214)
MfgOptions(rows) == {rows[i].mfg.s : i \in 1..Len(rows)}

\* one data row of the Excel export (lines 624-636)
ExcelRow(data) ==
    [Customer |-> data.customer, SalesOrder |-> data.sales_order,
     ItemNo |-> data.item_no, Description |-> data.description,
     Amount |-> data.amount, StockStatus |-> data.stock_status,
     Reason |-> data.reason, Comments |-> data.comments,
     Recorded |-> data.timestamp]

\* the script run that an interaction triggers, with the widget values sel
\* .. wcmax the browser sends.  A widget that the run does not render loses
\* its value; the multiselect is a new widget when its options change.  ev
\* names the interaction: "upload", "filter", "save" or "excel".
Rerun(file, sel, wmin, wmax, sf, wcmin, wcmax, store, ev) ==
    \E sel1 \in {IF MfgOptions(load_and_clean_data(file).rows) # MfgOptions(view.df_clean)
                 THEN {} ELSE sel} :
    \E v \in {RunScript(file, sel1, wmin, wmax, sf, wcmin, wcmax)} :
    \E row1 \in {"metrics" \in v.stages}, row2 \in {"filter" \in v.stages} :
        /\ df' = file
        /\ order_data_dict' = store
        /\ selected_mfg' = IF row1 THEN sel1 ELSE {}
        /\ min_value' = IF row1 THEN wmin ELSE Untouched
        /\ max_value' = IF row1 THEN wmax ELSE Untouched
        /\ stock_filter' = IF row1 THEN sf ELSE "All"
        /\ customer_min_value' = IF row2 THEN wcmin ELSE Untouched
        /\ customer_max_value' = IF row2 THEN wcmax ELSE Untouched
        /\ view' = IF ev = "excel"
                   THEN [v EXCEPT !.excel = {ExcelRow(store[k]) : k \in DOMAIN store}]
                   ELSE v

\* lines 88-92: no table, an empty annotation store, every widget untouched
Init ==
    /\ df = NoFile
    /\ order_data_dict = <<>>
    /\ selected_mfg = {}
    /\ min_value = Untouched
    /\ max_value = Untouched
    /\ stock_filter = "All"
    /\ customer_min_value = Untouched
    /\ customer_max_value = Untouched
    /\ now = 0
    /\ saves = <<>>
    /\ view = Idle

\* lines 116-123: a file is uploaded and becomes st.session_state.df
Upload(files) ==
    \E f \in files :
        /\ Rerun(f, selected_mfg, min_value, max_value, stock_filter,
                 customer_min_value, customer_max_value, order_data_dict, "upload")
        /\ UNCHANGED <<now, saves>>

FiltersShown == "metrics" \in view.stages

CustomerFilterShown == "filter" \in view.stages

SetMfg(leads) ==
    /\ FiltersShown
    /\ \E sel \in SUBSET (MfgOptions(view.df_clean) \cap leads) :
           Rerun(df, sel, min_value, max_value, stock_filter,
                 customer_min_value, customer_max_value, order_data_dict, "filter")
    /\ UNCHANGED <<now, saves>>

SetMinValue(values) ==
    /\ FiltersShown
    /\ \E x \in values :
           /\ x >= 0
           /\ Rerun(df, selected_mfg, Typed(x), max_value, stock_filter,
                    customer_min_value, customer_max_value, order_data_dict, "filter")
    /\ UNCHANGED <<now, saves>>

SetMaxValue(values) ==
    /\ FiltersShown
    /\ \E x \in values :
           /\ x >= 0
           /\ Rerun(df, selected_mfg, min_value, Typed(x), stock_filter,
                    customer_min_value, customer_max_value, order_data_dict, "filter")
    /\ UNCHANGED <<now, saves>>

StockChoices == {"All", "Back Order Only", "In Stock Only"}

SetStockFilter ==
    /\ FiltersShown
    /\ \E sf \in StockChoices :
           Rerun(df, selected_mfg, min_value, max_value, sf,
                 customer_min_value, customer_max_value, order_data_dict, "filter")
    /\ UNCHANGED <<now, saves>>

SetCustomerMin(values) ==
    /\ CustomerFilterShown
    /\ \E x \in values :
           /\ x >= 0
           /\ Rerun(df, selected_mfg, min_value, max_value, stock_filter,
                    Typed(x), customer_max_value, order_data_dict, "filter")
    /\ UNCHANGED <<now, saves>>

SetCustomerMax(values) ==
    /\ CustomerFilterShown
    /\ \E x \in values :
           /\ x >= 0
           /\ Rerun(df, selected_mfg, min_value, max_value, stock_filter,
                    customer_min_value, Typed(x), order_data_dict, "filter")
    /\ UNCHANGED <<now, saves>>

\* final_reason if final_reason else "Not specified" (lines 469-476, 496)
Reason(selected_reason, custom) ==
    LET final_reason == IF selected_reason = "Other" THEN custom ELSE selected_reason
    IN  IF final_reason # "" THEN final_reason ELSE "Not specified"

\* the record of lines 492-502
Annotation(b, reason, user_comments, clock) ==
    [sales_order |-> b.order.so,
     item_no |-> b.order.item,
     description |-> b.order.desc,
     reason |-> reason,
     comments |-> user_comments,
     timestamp |-> clock,
     customer |-> b.customer,
     amount |-> b.order.amt.n,
     stock_status |-> stock_status(b.order)]

\* a store that keeps the first record of a key (setdefault)
UpsertKeepFirst(store, key, rec) ==
    IF key \in DOMAIN store THEN store
    ELSE [k \in DOMAIN store \cup {key} |-> IF k = key THEN rec ELSE store[k]]

\* a store that forgets every other key at a save
UpsertAlone(store, key, rec) == [k \in {key} |-> rec]

\* st.session_state.order_data_dict[order_key] = {...}
Upsert(store, key, rec) ==
    [k \in DOMAIN store \cup {key} |-> IF k = key THEN rec ELSE store[k]]

\* the Save button of one rendered order is clicked (lines 488-503)
Save(reasons, customs, comments) ==
    /\ now < MaxSaves
    /\ \E i \in 1..Len(view.buttons), r \in reasons, t \in customs, c \in comments :
           LET b == view.buttons[i]
               rec == Annotation(b, Reason(r, t), c, now + 1)
           IN  /\ Rerun(df, selected_mfg, min_value, max_value, stock_filter,
                        customer_min_value, customer_max_value,
                        Upsert(order_data_dict, b.key, rec), "save")
               /\ saves' = Append(saves, rec)
    /\ now' = now + 1

\* "Generate Excel Export" (lines 593-669), shown once something is recorded
GenerateExcel ==
    /\ view.status = "ok"
    /\ DOMAIN order_data_dict # {}
    /\ Rerun(df, selected_mfg, min_value, max_value, stock_filter,
             customer_min_value, customer_max_value, order_data_dict, "excel")
    /\ UNCHANGED <<now, saves>>

----------------------------------------------------------------------------
(* Uploaded tables and typed values the specifications draw from.          *)

SeqsUpTo(S, n) == UNION {[1..k -> S] : k \in 0..n}

AllCols == RequiredCols \cup OptionalCols

L1 == <<"L", "1">>

L2 == <<"L", "2">>

BaseRow ==
    Row(Str(<<"a">>), Str(<<"c">>), Str(<<"d">>), Str(<<"A">>), Num(0), Num(50), Str(L1))

\* customer-name cells: empty, blank, the spellings of nan, digits, padded
\* and plain names, a number and a missing value
NameCells ==
    {Str(<<>>), Str(<<" ">>),
     Str(<<"n", "a", "n">>), Str(<<"N", "a", "N">>), Str(<<"N", "A", "N">>),
     Str(<<"N", "a", "n">>), Str(<<" ", "n", "a", "n", " ">>),
     Str(<<"1", "2">>), Str(<<" ", "1", "2", " ">>), Str(<<"A", "1">>),
     Str(<<"A">>), Str(<<" ", "A", " ">>), Str(<<"B">>),
     Num(12), NaN}

QohCells == {Num(0 - 1), Num(0), Num(2), Str(<<"3">>), Str(<<"x">>), NaN}

AmtCells == {Num(0), Num(50), Str(<<"7">>), Str(<<"x">>), NaN}

MfgCells == {Str(L1), Str(L2), NaN}

\* rows that vary one column of BaseRow, and rows that combine a bad and a
\* good value of every required column
\* rows of a file that fills in Outstanding Quantity: 10 on hand of 100
\* outstanding, and 10 on hand of 10 outstanding
QtyRows ==
    {[BaseRow EXCEPT !.qoh = Num(10), !.oqty = Num(100)],
     [BaseRow EXCEPT !.qoh = Num(10), !.oqty = Num(10)]}

IngestRows ==
    QtyRows
    \cup {[BaseRow EXCEPT !.name = c] : c \in NameCells}
    \cup {[BaseRow EXCEPT !.qoh = c] : c \in QohCells}
    \cup {[BaseRow EXCEPT !.amt = c] : c \in AmtCells}
    \cup {[BaseRow EXCEPT !.mfg = c] : c \in MfgCells}
    \cup {[BaseRow EXCEPT !.name = n, !.qoh = q, !.amt = a, !.mfg = m] :
            n \in {Str(<<"B">>), Str(<<"N", "A", "N">>)}, q \in {Num(2), NaN},
            a \in {Num(50), Str(<<"x">>)}, m \in {Str(L1), NaN}}

IngestFiles ==
    {Table({}, rows) : rows \in SeqsUpTo(IngestRows, MaxRows)}
    \cup {Table({c}, rows) : c \in AllCols, rows \in SeqsUpTo(IngestRows, 1)}

\* the state once a first file is uploaded into a fresh session
InitWith(files) ==
    /\ df \in files
    /\ order_data_dict = <<>>
    /\ selected_mfg = {}
    /\ min_value = Untouched
    /\ max_value = Untouched
    /\ stock_filter = "All"
    /\ customer_min_value = Untouched
    /\ customer_max_value = Untouched
    /\ now = 0
    /\ saves = <<>>
    /\ view = RunScript(df, {}, Untouched, Untouched, "All", Untouched, Untouched)

InitIngest == InitWith(IngestFiles)

NextIngest == SetStockFilter

SpecIngest == InitIngest /\ [][NextIngest]_vars

----------------------------------------------------------------------------
(* Filter specification: cleaned tables over two customers, amounts below, *)
(* at and above zero, both stock states; every widget setting.             *)

FilterRows ==
    {[BaseRow EXCEPT !.name = Str(n), !.amt = Num(a), !.qoh = Num(q)] :
        n \in {<<"A">>, <<"B">>}, a \in {0, 50, 5000}, q \in {0, 2}}
    \cup {[BaseRow EXCEPT !.amt = Num(0 - 50)],
          [BaseRow EXCEPT !.name = Str(<<"B">>), !.qoh = Num(2), !.mfg = Str(L2)]}

FilterFiles == {Table({}, rows) : rows \in SeqsUpTo(FilterRows, MaxFilterRows)}

\* the state once a file is uploaded and the filter widgets are set
InitFilter ==
    \E f \in FilterFiles :
    \E sel \in SUBSET (MfgOptions(load_and_clean_data(f).rows) \cap {L1}) :
    \E wmin \in {Untouched, Typed(100)}, wmax \in {Untouched, Typed(100)},
       sf \in StockChoices,
       wcmin \in {Untouched, Typed(4000)}, wcmax \in {Untouched, Typed(6000)} :
    \E v \in {RunScript(f, sel, wmin, wmax, sf, wcmin, wcmax)} :
    \E row1 \in {"metrics" \in v.stages}, row2 \in {"filter" \in v.stages} :
        /\ df = f
        /\ order_data_dict = <<>>
        /\ selected_mfg = (IF row1 THEN sel ELSE {})
        /\ min_value = (IF row1 THEN wmin ELSE Untouched)
        /\ max_value = (IF row1 THEN wmax ELSE Untouched)
        /\ stock_filter = (IF row1 THEN sf ELSE "All")
        /\ customer_min_value = (IF row2 THEN wcmin ELSE Untouched)
        /\ customer_max_value = (IF row2 THEN wcmax ELSE Untouched)
        /\ now = 0
        /\ saves = <<>>
        /\ view = v

NextFilter ==
    \/ SetStockFilter
    \/ SetMfg({L1})
    \/ SetMinValue({100})
    \/ SetMaxValue({100})
    \/ SetCustomerMin({4000})
    \/ SetCustomerMax({6000})

SpecFilter == InitFilter /\ [][NextFilter]_vars

----------------------------------------------------------------------------
(* Session specification: uploads, a filter change, Save clicks and the    *)
(* Excel export over a few small tables.  Two customers order the same     *)
(* (Sales Order No, Item No) pair; customer A has a second order.          *)

SessionRows ==
    {Row(Str(<<"a", "_", "b">>), Str(<<"c">>), Str(<<"d">>), Str(<<"A">>),
         Num(0), Num(50), Str(L1)),
     Row(Str(<<"a", "_", "b">>), Str(<<"c">>), Str(<<"d">>), Str(<<"B">>),
         Num(2), Num(70), Str(L1)),
     Row(Str(<<"a">>), Str(<<"c">>), Str(<<"d">>), Str(<<"A">>),
         Num(2), Num(50), Str(L1))}

\* a table that lacks one required column
Lacking(c) == Table({c}, <<BaseRow>>)

SessionFiles ==
    {Table({}, rows) : rows \in SeqsUpTo(SessionRows, MaxSessionRows)}
    \cup {Lacking(c) : c \in RequiredCols}

ReasonChoices == {"Supply chain delay", "Other"}

CustomReasons == {""}

CommentTexts == {"", "call customer"}

Next ==
    \/ Upload(SessionFiles)
    \/ SetStockFilter
    \/ Save(ReasonChoices, CustomReasons, CommentTexts)
    \/ GenerateExcel

Spec == Init /\ [][Next]_vars


----------------------------------------------------------------------------
(* Annotation sessions: one uploaded file whose order lines are annotated. *)
(* The sales orders and items contain the separator of the store key; one  *)
(* pair occurs twice for a customer with different quantities on hand; one *)
(* line has a negative quantity on hand.                                   *)

AnnotateRows ==
    {Row(Str(<<"a">>), Str(<<"b", "_", "c">>), Str(<<"d">>), Str(<<"A">>),
         Num(0), Num(50), Str(L1)),
     Row(Str(<<"a">>), Str(<<"b", "_", "c">>), Str(<<"d">>), Str(<<"A">>),
         Num(2), Num(70), Str(L1)),
     Row(Str(<<"a", "_", "b">>), Str(<<"c">>), Str(<<"d">>), Str(<<"A">>),
         Num(2), Num(50), Str(L1)),
     Row(Str(<<"a", "_", "b">>), Str(<<"c">>), Str(<<"e">>), Str(<<"B">>),
         Num(2), Num(70), Str(L1)),
     Row(Str(<<"a">>), Str(<<"c">>), Str(<<"d">>), Str(<<"B">>),
         Num(0 - 1), Num(50), Str(L1))}

AnnotateFiles == {Table({}, rows) : rows \in SeqsUpTo(AnnotateRows, MaxAnnotateRows)}

InitAnnotate == InitWith(AnnotateFiles)

NextAnnotate ==
    \/ SetStockFilter
    \/ Save(ReasonChoices, CustomReasons, CommentTexts)

SpecAnnotate == InitAnnotate /\ [][NextAnnotate]_vars
----------------------------------------------------------------------------
(* Properties.                                                             *)

Present(c) == c.t # "nan"

InFrame(r, rows) == \E i \in 1..Len(rows) : rows[i] = r

\* C1: the back-order bucket and the in-stock bucket partition df_clean: every
\* cleaned row is in exactly one of them.
C1_BucketsPartition ==
    "classify" \in view.stages =>
        /\ Len(view.backorders) + Len(view.instock) = Len(view.df_clean)
        /\ \A i \in 1..Len(view.df_clean) :
               InFrame(view.df_clean[i], view.backorders)
                   # InFrame(view.df_clean[i], view.instock)

IsNanAnyCase(s) ==
    /\ Len(s) = 3
    /\ s[1] \in {"n", "N"}
    /\ s[2] \in {"a", "A"}
    /\ s[3] \in {"n", "N"}

RejectedName(s) == s = <<>> \/ isdigit(s) \/ IsNanAnyCase(s)

TrimmedName(r) == strip(astype_str(r.name).s)

AllValuesPresent(r) ==
    Present(to_numeric(r.qoh)) /\ Present(to_numeric(r.amt)) /\ Present(r.mfg)

\* C6: no cleaned row has a customer name that is empty, all digits or nan in
\* any letter case; a row with a valid name and all required values is kept.
C6_BadNamesDropped ==
    "clean" \in view.stages =>
        /\ \A i \in 1..Len(view.df_clean) : ~RejectedName(view.df_clean[i].name.s)
        /\ \A i \in 1..Len(df.rows) :
               (~RejectedName(TrimmedName(df.rows[i])) /\ AllValuesPresent(df.rows[i]))
                   => InFrame(Coerce(df.rows[i]), view.df_clean)

RequiredPresent(r) ==
    Present(r.qoh) /\ Present(r.name) /\ Present(r.amt) /\ Present(r.mfg)

\* C7: with the required columns there the call does not fail; every row of
\* df_clean, and so of the buckets and of filtered_df, has QOH, customer name,
\* Outstanding Amount and Mfg. Lead Name present; a row that lacks one after
\* coercion is dropped alone: exactly the other rows with an accepted name stay.
C7_RequiredValuesPresent ==
    /\ (df.loaded /\ df.missing \cap RequiredCols = {}) => "clean" \in view.stages
    /\ "clean" \in view.stages =>
        /\ \A i \in 1..Len(view.df_clean) : RequiredPresent(view.df_clean[i])
        /\ \A i \in 1..Len(view.backorders) : RequiredPresent(view.backorders[i])
        /\ \A i \in 1..Len(view.instock) : RequiredPresent(view.instock[i])
        /\ \A i \in 1..Len(view.filtered_df) : RequiredPresent(view.filtered_df[i])
        /\ Len(view.df_clean) =
               Cardinality({i \in 1..Len(df.rows) :
                   AllValuesPresent(df.rows[i]) /\ ValidName(Coerce(df.rows[i]))})

\* C7 witness: of two rows the first has a QOH that is no number; it alone is dropped
C7_Witness ==
    /\ Len(df.rows) = 2
    /\ Present(df.rows[1].qoh)
    /\ ~Present(to_numeric(df.rows[1].qoh))
    /\ view.df_clean = <<Coerce(df.rows[2])>>
    /\ view.status = "ok"

\* C8: a table with every required column and no surviving row is processed
\* without reaching the error branch and reports zero counts and sums.
C8_ZeroRowsHandled ==
    (df.loaded /\ df.missing = {} /\ Len(load_and_clean_data(df).rows) = 0) =>
        /\ view.status = "ok"
        /\ view.metrics.bo_items = 0
        /\ view.metrics.bo_pct = Zero
        /\ view.metrics.total_value = 0

RowsOf(rows, cust) == SelectSeq(rows, LAMBDA r : r.name.s = cust)

TotalOver(rows, cust) == SumAmount(RowsOf(rows, cust))

NamesIn(rows) == {rows[i].name.s : i \in 1..Len(rows)}

Listed(custs) == {custs[i] : i \in 1..Len(custs)}

\* C3: each customer's total is the sum over the rows that passed the
\* row-level filters, and the customer list holds exactly the customers whose
\* total over those rows lies within the customer-total range.
C3_TotalsOverFilteredRows ==
    "customers" \in view.stages =>
        /\ {e.customer : e \in Range(view.customer_summary_list)} = NamesIn(view.filtered_df)
        /\ \A i \in 1..Len(view.customer_summary_list) :
               view.customer_summary_list[i].total =
                   TotalOver(view.filtered_df, view.customer_summary_list[i].customer)
        /\ Listed(view.customer_list) =
               {c \in NamesIn(view.filtered_df) :
                   /\ TotalOver(view.filtered_df, c) >= view.cmin
                   /\ TotalOver(view.filtered_df, c) <= view.cmax}

\* C3 witness: lines of 50 and 5000, amounts from 100, totals in [4000, 6000]: kept
C3_Witness ==
    /\ "customers" \in view.stages
    /\ {view.df_clean[i].amt.n : i \in 1..Len(view.df_clean)} = {50, 5000}
    /\ NamesIn(view.df_clean) = {<<"A">>}
    /\ TotalOver(view.df_clean, <<"A">>) = 5050
    /\ view.lo = 100
    /\ view.cmin = 4000
    /\ view.cmax = 6000
    /\ TotalOver(view.filtered_df, <<"A">>) = 5000
    /\ view.customer_list = <<<<"A">>>>

ShownRows == SelectSeq(view.filtered_df, LAMBDA r : r.name.s \in Listed(view.customer_list))

FilterAgain(rows) == ApplyFilters(rows, selected_mfg, view.lo, view.hi, stock_filter)

CustomersAgain(rows) ==
    customer_list(customer_summary_list(SummaryInput(rows, FilterAgain(rows))),
                  view.cmin, view.cmax)

\* C4: filtering the filtered rows again with the same specification gives the
\* same rows and the same customer list, also when started from the rows of
\* the listed customers only.
C4_FilterIdempotent ==
    "customers" \in view.stages =>
        /\ FilterAgain(view.filtered_df) = view.filtered_df
        /\ CustomersAgain(view.filtered_df) = view.customer_list
        /\ FilterAgain(ShownRows) = ShownRows
        /\ CustomersAgain(ShownRows) = view.customer_list

\* C4 witness: the row filters removed a row, a customer-total range is set, a customer stays
C4_Witness ==
    /\ "customers" \in view.stages
    /\ Len(view.filtered_df) < Len(view.df_clean)
    /\ customer_min_value.user
    /\ customer_max_value.user
    /\ view.customer_list # <<>>

\* C5: every row of the detail export belongs to a customer of customer_list,
\* and the detail export and the customer summary export cover the same customers.
C5_ExportWithinCustomerList ==
    "summary" \in view.stages =>
        /\ \A i \in 1..Len(view.export_df) :
               view.export_df[i].Customer \in Listed(view.customer_list)
        /\ {view.export_df[i].Customer : i \in 1..Len(view.export_df)} =
               {view.summary_data[i].Customer : i \in 1..Len(view.summary_data)}

\* C9: in every customer rollup both percentages are 0 when the customer's
\* total is 0 and value * 100 / total otherwise.
C9_PercentagesGuarded ==
    \A i \in 1..Len(view.rollups) :
        LET r == view.rollups[i] IN
        /\ r.total_customer_value = TotalOver(view.filtered_df, r.customer)
        /\ r.total_customer_value = 0 => (r.pct_bo = Zero /\ r.pct_is = Zero)
        /\ r.total_customer_value # 0 =>
               /\ r.pct_bo = Ratio(r.back_order_val * 100, r.total_customer_value)
               /\ r.pct_is = Ratio(r.instock_val * 100, r.total_customer_value)

\* C9 witness: one customer with total 0, another with a back-order value
C9_Witness ==
    \E i, j \in 1..Len(view.rollups) :
        /\ view.rollups[i].total_customer_value = 0
        /\ view.rollups[i].pct_bo = Zero
        /\ view.rollups[j].total_customer_value > 0
        /\ view.rollups[j].back_order_val > 0

PairOf(rec) == <<rec.sales_order, rec.item_no>>

LastSaveOf(p) ==
    saves[CHOOSE i \in 1..Len(saves) :
              /\ PairOf(saves[i]) = p
              /\ \A j \in (i + 1)..Len(saves) : PairOf(saves[j]) # p]

RecordsOf(p) == {k \in DOMAIN order_data_dict : PairOf(order_data_dict[k]) = p}

\* C2: the store holds at most one record per (sales order, item) pair, every
\* record it holds is the most recent save of its pair, whole and unmerged,
\* and the pair saved last has exactly one record, that save's.
C2_LastWriteWins ==
    /\ \A k1, k2 \in DOMAIN order_data_dict :
           PairOf(order_data_dict[k1]) = PairOf(order_data_dict[k2]) => k1 = k2
    /\ \A k \in DOMAIN order_data_dict :
           /\ \E i \in 1..Len(saves) : PairOf(saves[i]) = PairOf(order_data_dict[k])
           /\ order_data_dict[k] = LastSaveOf(PairOf(order_data_dict[k]))
    /\ saves # <<>> =>
           /\ Cardinality(RecordsOf(PairOf(saves[Len(saves)]))) = 1
           /\ \A k \in RecordsOf(PairOf(saves[Len(saves)])) :
                  order_data_dict[k] = saves[Len(saves)]

\* C2 witness: one pair saved twice with different reasons, one record, the second save's
C2_Witness ==
    /\ Len(saves) = 2
    /\ PairOf(saves[1]) = PairOf(saves[2])
    /\ saves[1].reason # saves[2].reason
    /\ saves[1].comments # saves[2].comments
    /\ Cardinality(DOMAIN order_data_dict) = 1
    /\ \A k \in DOMAIN order_data_dict : order_data_dict[k].reason = saves[2].reason

LacksRequired(file) == file.loaded /\ file.missing \cap RequiredCols # {}

\* C10: a pass over data that lacks a required column ends in the error state
\* with no stage run (no classification, filtering or aggregation result) and
\* leaves the annotation store as it was.
C10_SchemaErrorAborts ==
    [][LacksRequired(df') =>
           /\ view'.status = "error"
           /\ view'.stages = {}
           /\ view'.df_clean = <<>>
           /\ view'.backorders = <<>>
           /\ view'.instock = <<>>
           /\ view'.filtered_df = <<>>
           /\ view'.customer_summary_list = <<>>
           /\ view'.rollups = <<>>
           /\ view'.summary_data = <<>>
           /\ order_data_dict' = order_data_dict]_vars

\* C10 witness: a file without a required column arrived while the store held a record
C10_Witness ==
    /\ LacksRequired(df)
    /\ view.status = "error"
    /\ view.stages = {}
    /\ DOMAIN order_data_dict # {}

\* C11: data with all four required columns and at least one valid row is
\* processed to the end, exports included, whatever optional columns are
\* absent or hold missing values: the error branch is not reached.
C11_OnlySchemaErrorsFail ==
    (/\ df.loaded
     /\ df.missing \cap RequiredCols = {}
     /\ Len(load_and_clean_data(df).rows) >= 1)
        => /\ view.status = "ok"
           /\ {"classify", "filter", "customers", "sections", "export", "summary"}
                  \subseteq view.stages

\* C15: every customer rollup and every row of the customer summary export is
\* conserved over the split: items = back-order items + in-stock items and
\* total = back-order value + in-stock value.
C15_RollupConserved ==
    /\ \A i \in 1..Len(view.rollups) :
           LET r == view.rollups[i] IN
           /\ r.num_items = r.back_order_items + r.instock_items
           /\ r.total_customer_value = r.back_order_val + r.instock_val
    /\ \A i \in 1..Len(view.summary_data) :
           LET s == view.summary_data[i] IN
           /\ s.TotalItems = s.BackOrderItems + s.InStockItems
           /\ s.TotalOutstanding = s.BackOrderValue + s.InStockValue

\* C12: in every step the keys of the store are kept; a step that is no Save
\* (an upload, a filter change, a failed pass, an export) leaves the store as
\* it was, and a Save changes the record of its own key only.
C12_StoreChangesOnlyBySave ==
    [][/\ DOMAIN order_data_dict \subseteq DOMAIN order_data_dict'
       /\ saves' = saves => order_data_dict' = order_data_dict
       /\ saves' # saves =>
              \E k \in DOMAIN order_data_dict' :
                  /\ order_data_dict'[k] = saves'[Len(saves')]
                  /\ DOMAIN order_data_dict' = DOMAIN order_data_dict \cup {k}
                  /\ \A j \in DOMAIN order_data_dict \ {k} :
                         order_data_dict'[j] = order_data_dict[j]]_vars

\* C12 witness: a record outlives the upload of a file without its customer
C12_Witness ==
    /\ df.loaded
    /\ view.status = "ok"
    /\ \E k \in DOMAIN order_data_dict :
           /\ order_data_dict[k] = LastSaveOf(PairOf(order_data_dict[k]))
           /\ \A i \in 1..Len(df.rows) : df.rows[i].name.s # order_data_dict[k].customer

\* back order under the shortage-aware policy: nothing on hand, or less on
\* hand than outstanding where the outstanding quantity is given
ShortageAwareBackOrder(r) ==
    \/ r.qoh.n = 0
    \/ r.oqty.t = "num" /\ 0 < r.qoh.n /\ r.qoh.n < r.oqty.n

\* C13: both policies can be chosen: one stock choice shows the strict back
\* orders (QOH = 0) and one shows the shortage-aware back orders, which hold a
\* row with 10 on hand of 100 outstanding and not one with 10 of 10.
C13_BothPoliciesAvailable ==
    "filter" \in view.stages =>
        /\ \E sf \in StockChoices :
               ByStock(view.df_clean, sf) = SelectSeq(view.df_clean, IsBackOrder)
        /\ \E sf \in StockChoices :
               ByStock(view.df_clean, sf) =
                   SelectSeq(view.df_clean, ShortageAwareBackOrder)

\* C14: a pair that was saved keeps a record of its own: the store holds the
\* most recent save of every pair saved so far, whatever was saved for other
\* pairs since.
C14_PairsKeepOwnRecords ==
    \A i \in 1..Len(saves) :
        \E k \in DOMAIN order_data_dict :
            order_data_dict[k] = LastSaveOf(PairOf(saves[i]))

\* C16: every saved record was taken from an order line of its customer and
\* pair whose bucket its stock status names: BACK ORDER exactly for a line of
\* the back-order bucket, IN STOCK exactly for a line of the in-stock bucket.
C16_SnapshotAgreesWithBuckets ==
    \A i \in 1..Len(saves) :
        \E j \in 1..Len(view.df_clean) :
            LET r == view.df_clean[j] IN
            /\ r.name.s = saves[i].customer
            /\ <<r.so, r.item>> = PairOf(saves[i])
            /\ r.amt.n = saves[i].amount
            /\ saves[i].stock_status = "BACK ORDER" <=> InFrame(r, view.backorders)
            /\ saves[i].stock_status = "IN STOCK" <=> InFrame(r, view.instock)

====
